---- MODULE Spec2Model ----
(***************************************************************************)
(* Day-level allocation expansion (expand_with_missing_dates) and the      *)
(* allocation validator (run_allocation_validation_tests) of               *)
(* trhiii/resourcing, as a state machine over one input table.             *)
(*                                                                         *)
(* Dates are day numbers counted from 2025-01-01 (day 0), percents are     *)
(* whole numbers, a table is a sequence of rows.                           *)
(*                                                                         *)
(* The second half models the organisational hierarchy queries             *)
(* (get_manager_at_level_from_top, get_employee_level_from_top,            *)
(* get_max_org_levels) and the process-wide cache they share, one step per *)
(* loop iteration. get_sprint_info, add_calculated_columns and the column  *)
(* filter of apply_field_configuration are modelled as single steps.       *)
(***************************************************************************)
EXTENDS Integers, Sequences, FiniteSets

\* the expansion and the validator
VARIABLES df, pc, df_sorted, max_date, unique_team_assignments,
          assignment_idx, expanded_rows, result, errors

\* the hierarchy queries: the databases, the two module-level caches, the
\* call in progress and its local variables
VARIABLES tblUKG, supervisor_cache, employee_names_cache,
          hpc, call, current_employee, visited, path_to_top,
          level_count, max_levels, key_idx, retval

\* the calculated columns: the table add_calculated_columns returns, and the
\* argument and the returned value of a call of get_sprint_info
VARIABLES result_df, asof_date, sprint

expand_vars == <<df, pc, df_sorted, max_date, unique_team_assignments,
                 assignment_idx, expanded_rows, result, errors>>

hier_vars == <<tblUKG, supervisor_cache, employee_names_cache,
               hpc, call, current_employee, visited, path_to_top,
               level_count, max_levels, key_idx, retval>>

calc_vars == <<result_df, asof_date, sprint>>

vars == <<expand_vars, calc_vars, hier_vars>>

(***************************************************************************)
(* Bounds of the model                                                     *)
(***************************************************************************)
\* largest number of rows of an input table
MaxRows == 3
\* input snapshot dates are FirstDate .. FirstDate + MaxSpan
MaxSpan == 2

(***************************************************************************)
(* Calendar                                                                *)
(***************************************************************************)
\* lengths of the months of a non-leap year (2025, 2026, 2027)
MonthLen == <<31, 28, 31, 30, 31, 30, 31, 31, 30, 31, 30, 31>>

\* two days before the end of January 2025, so that the dates straddle a month end
FirstDate == MonthLen[1] - 2

RECURSIVE MonthFrom(_, _)
MonthFrom(day_of_year, m) ==
    IF day_of_year < MonthLen[m] THEN m
    ELSE MonthFrom(day_of_year - MonthLen[m], m + 1)

\* AsOfDate.dt.strftime('%Y-%m'): the calendar month of a day number, as <<year, month>>
strftime_Ym(d) == <<2025 + (d \div 365), MonthFrom(d % 365, 1)>>

(***************************************************************************)
(* Input domain                                                            *)
(***************************************************************************)
\* the (employee, team) pairs of the test data: one employee with two team
\* assignments and a second employee with one
AssignmentSeq == << <<"TEST001", "Team A">>, <<"TEST001", "Team B">>, <<"TEST002", "Team A">> >>
DateSeq     == [i \in 1..(MaxSpan + 1) |-> FirstDate + i - 1]
\* percents of the expansion scenarios: the exit sentinel and two positive values
PercentSeq  == <<0, 60, 100>>
\* percents of the validator scenarios (60/40 split, 60/50 over-allocation)
AllocPercentSeq == <<40, 50, 60>>

Employees == {AssignmentSeq[i][1] : i \in DOMAIN AssignmentSeq}
Teams     == {AssignmentSeq[i][2] : i \in DOMAIN AssignmentSeq}
Dates     == {DateSeq[i] : i \in DOMAIN DateSeq}

\* a missing (null) value of a dimension column
NaN == "NaN"
\* an AsOfDate that pd.to_datetime cannot parse
NotADate == -1

\* input of poor quality: a team assignment without Team and an unparseable date
DirtyAssignmentSeq == << <<"TEST001", "Team A">>, <<"TEST001", NaN>>, <<"TEST002", "Team A">> >>
DirtyDateSeq == DateSeq \o <<NotADate>>
DirtyPercentSeq == <<60, 100>>

\* the k-th row of a domain, percent-major (so input tables are not in sort order)
RowFrom(assignments, dates, pcts, k) ==
    LET nA == Len(assignments)
        nD == Len(dates)
        k0 == k - 1
    IN  [Employee_Number |-> assignments[(k0 % nA) + 1][1],
         Group           |-> "Backend",
         Subgroup        |-> "API",
         Team            |-> assignments[(k0 % nA) + 1][2],
         Percent         |-> pcts[(k0 \div (nA * nD)) + 1],
         AsOfDate        |-> dates[((k0 \div nA) % nD) + 1]]

RowAt(k, pcts) == RowFrom(AssignmentSeq, DateSeq, pcts, k)

RowCount(pcts) == Len(AssignmentSeq) * Len(DateSeq) * Len(pcts)

\* a table of n rows: the rows picked by the row numbers ks, which are in domain order
TableOf(ks, pcts) == [i \in DOMAIN ks |-> RowAt(ks[i], pcts)]

InDomainOrder(ks) == \A i \in DOMAIN ks : i + 1 \in DOMAIN ks => ks[i] <= ks[i + 1]

(***************************************************************************)
(* Table helpers (pandas)                                                  *)
(***************************************************************************)
\* lexicographic order of the names that occur in the tables; missing values
\* sort last (na_position='last')
NameOrder == <<"API", "Backend", "TEST001", "TEST002", "Team A", "Team B", NaN>>
NameRank(s) == CHOOSE i \in DOMAIN NameOrder : NameOrder[i] = s

ColumnRank(col, row) ==
    IF col \in {"AsOfDate", "Percent"} THEN row[col] ELSE NameRank(row[col])

RECURSIVE LessBy(_, _, _)
LessBy(cols, a, b) ==
    IF cols = << >> THEN FALSE
    ELSE LET c == Head(cols) IN
         IF ColumnRank(c, a) < ColumnRank(c, b) THEN TRUE
         ELSE IF ColumnRank(c, a) > ColumnRank(c, b) THEN FALSE
         ELSE LessBy(Tail(cols), a, b)

RECURSIVE InsertSorted(_, _, _)
InsertSorted(cols, x, s) ==
    IF s = << >> THEN <<x>>
    ELSE IF LessBy(cols, x, Head(s)) THEN <<x>> \o s
    ELSE <<Head(s)>> \o InsertSorted(cols, x, Tail(s))

\* DataFrame.sort_values(cols): rows with equal keys keep their order
RECURSIVE sort_values(_, _)
sort_values(t, cols) ==
    IF t = << >> THEN << >>
    ELSE InsertSorted(cols, t[Len(t)], sort_values(SubSeq(t, 1, Len(t) - 1), cols))

grouping_cols == <<"Employee_Number", "Group", "Subgroup", "Team">>

\* the grouping key of a row: its values in grouping_cols
GroupKey(row) == [i \in DOMAIN grouping_cols |-> row[grouping_cols[i]]]

\* df[grouping_cols].drop_duplicates(): the keys in order of first appearance
RECURSIVE drop_duplicates(_)
drop_duplicates(t) ==
    IF t = << >> THEN << >>
    ELSE LET rest == drop_duplicates(SubSeq(t, 1, Len(t) - 1))
             k    == GroupKey(t[Len(t)])
         IN  IF \E i \in DOMAIN rest : rest[i] = k THEN rest ELSE Append(rest, k)

\* Series.unique(): the values of a sequence in order of first appearance
RECURSIVE unique(_)
unique(s) ==
    IF s = << >> THEN << >>
    ELSE LET rest == unique(SubSeq(s, 1, Len(s) - 1))
         IN  IF \E i \in DOMAIN rest : rest[i] = s[Len(s)] THEN rest
             ELSE Append(rest, s[Len(s)])

SetMax(S) == CHOOSE x \in S : \A y \in S : y <= x
SetMin(S) == CHOOSE x \in S : \A y \in S : x <= y

\* sorted(set of dates) as an ascending sequence
RECURSIVE sorted(_)
sorted(S) ==
    IF S = {} THEN << >>
    ELSE LET m == SetMin(S) IN <<m>> \o sorted(S \ {m})

RECURSIVE SeqSum(_)
SeqSum(s) == IF s = << >> THEN 0 ELSE Head(s) + SeqSum(Tail(s))

RECURSIVE Flatten(_)
Flatten(ss) == IF ss = << >> THEN << >> ELSE Head(ss) \o Flatten(Tail(ss))

(***************************************************************************)
(* expand_with_missing_dates                                               *)
(***************************************************************************)
\* faulty variant: the snapshot dates of all employees
employee_all_dates_of_anyone(t, employee_num) ==
    sorted({t[i].AsOfDate : i \in DOMAIN t})

\* all AsOfDates of one employee across all of the employee's team assignments
employee_all_dates(t, employee_num) ==
    sorted({t[i].AsOfDate : i \in {j \in DOMAIN t : t[j].Employee_Number = employee_num}})

\* faulty variant: the period ends on the next snapshot date itself
period_end_date_inclusive(all_dates, period_start_date, maxd) ==
    LET period_start_idx == CHOOSE i \in DOMAIN all_dates : all_dates[i] = period_start_date
    IN  IF period_start_idx < Len(all_dates)
        THEN all_dates[period_start_idx + 1]
        ELSE maxd

\* faulty variant: the last period of an employee is not extended to the dataset maximum
period_end_date_no_horizon(all_dates, period_start_date, maxd) ==
    LET period_start_idx == CHOOSE i \in DOMAIN all_dates : all_dates[i] = period_start_date
    IN  IF period_start_idx < Len(all_dates)
        THEN all_dates[period_start_idx + 1] - 1
        ELSE period_start_date

\* the last day of the period that starts at period_start_date
period_end_date(all_dates, period_start_date, maxd) ==
    LET period_start_idx == CHOOSE i \in DOMAIN all_dates : all_dates[i] = period_start_date
    IN  IF period_start_idx < Len(all_dates)
        THEN all_dates[period_start_idx + 1] - 1
        ELSE maxd

\* faulty variant: zero-percent periods are expanded too
creates_daily_records_nonneg(period_start_date, end_date, period_percent) ==
    period_start_date <= end_date /\ period_percent >= 0

\* "only create daily records if the period has a valid date range and non-zero percentage"
creates_daily_records(period_start_date, end_date, period_percent) ==
    period_start_date <= end_date /\ period_percent > 0

\* pd.date_range(start, end, freq='D')
date_range(start, end) == [i \in 1..(end - start + 1) |-> start + i - 1]

\* the daily records of one period record
period_rows(period_record, all_dates, maxd) ==
    LET period_start_date == period_record.AsOfDate
        period_percent    == period_record.Percent
        end_date          == period_end_date(all_dates, period_start_date, maxd)
        period_dates      == date_range(period_start_date, end_date)
    IN  IF creates_daily_records(period_start_date, end_date, period_percent)
        THEN [i \in DOMAIN period_dates |->
                 [period_record EXCEPT !.AsOfDate = period_dates[i],
                                       !.Percent  = period_percent]]
        ELSE << >>

\* "mask & (df_sorted[col] == assignment_row[col])" over grouping_cols: a
\* missing value equals nothing, not even another missing value
mask(row, assignment_row) ==
    \A c \in DOMAIN grouping_cols :
        /\ row[grouping_cols[c]] # NaN
        /\ assignment_row[c] # NaN
        /\ row[grouping_cols[c]] = assignment_row[c]

\* faulty variant: the snapshot dates are taken from the team assignment alone
assignment_rows_own_dates(t, assignment_row, maxd) ==
    LET team_assignment_records ==
            sort_values(SelectSeq(t, LAMBDA r : mask(r, assignment_row)), <<"AsOfDate">>)
        all_dates == sorted({team_assignment_records[i].AsOfDate :
                                 i \in DOMAIN team_assignment_records})
    IN  Flatten([i \in DOMAIN team_assignment_records |->
                    period_rows(team_assignment_records[i], all_dates, maxd)])

\* faulty variant: of the records of one date only the last one is expanded
assignment_rows_deduplicated(t, assignment_row, maxd) ==
    LET team_assignment_records ==
            sort_values(SelectSeq(t, LAMBDA r : mask(r, assignment_row)), <<"AsOfDate">>)
        all_dates == employee_all_dates(t, assignment_row[1])
        latest(i) == \A j \in DOMAIN team_assignment_records :
                         j > i => team_assignment_records[j].AsOfDate
                                      # team_assignment_records[i].AsOfDate
    IN  Flatten([i \in DOMAIN team_assignment_records |->
                    IF latest(i)
                    THEN period_rows(team_assignment_records[i], all_dates, maxd)
                    ELSE << >>])

\* one iteration of the loop over unique_team_assignments
assignment_rows(t, assignment_row, maxd) ==
    LET team_assignment_records ==
            sort_values(SelectSeq(t, LAMBDA r : mask(r, assignment_row)), <<"AsOfDate">>)
        all_dates == employee_all_dates(t, assignment_row[1])
    IN  Flatten([i \in DOMAIN team_assignment_records |->
                    period_rows(team_assignment_records[i], all_dates, maxd)])

(***************************************************************************)
(* run_allocation_validation_tests                                         *)
(***************************************************************************)
\* total_allocation > 100.01, in hundredths of a percent
over_allocated(total_allocation) == total_allocation * 100 > 10001

\* faulty variant: the month labels are not de-duplicated (.unique() left out)
employee_findings_per_record(t, employee) ==
    LET employee_data == SelectSeq(t, LAMBDA r : r.Employee_Number = employee)
        months == [i \in DOMAIN employee_data |-> strftime_Ym(employee_data[i].AsOfDate)]
        total(month) ==
            LET month_data == SelectSeq(employee_data,
                                        LAMBDA r : strftime_Ym(r.AsOfDate) = month)
            IN  SeqSum([i \in DOMAIN month_data |-> month_data[i].Percent])
        offending == SelectSeq(months, LAMBDA m : over_allocated(total(m)))
    IN  [i \in DOMAIN offending |->
            [kind |-> "over_allocated", Employee_Number |-> employee,
             month |-> offending[i], total_allocation |-> total(offending[i])]]

\* the over-allocation findings of one employee, one per offending month
employee_findings(t, employee) ==
    LET employee_data == SelectSeq(t, LAMBDA r : r.Employee_Number = employee)
        months == unique([i \in DOMAIN employee_data |-> strftime_Ym(employee_data[i].AsOfDate)])
        total(month) ==
            LET month_data == SelectSeq(employee_data,
                                        LAMBDA r : strftime_Ym(r.AsOfDate) = month)
            IN  SeqSum([i \in DOMAIN month_data |-> month_data[i].Percent])
        offending == SelectSeq(months, LAMBDA m : over_allocated(total(m)))
    IN  [i \in DOMAIN offending |->
            [kind |-> "over_allocated", Employee_Number |-> employee,
             month |-> offending[i], total_allocation |-> total(offending[i])]]

\* df.columns
columns(t) == IF t = << >> THEN {} ELSE DOMAIN t[1]

required_columns == <<"Employee_Number", "Team", "Percent", "AsOfDate">>

\* the columns the two checks of lines 177-191 look up; df[col] raises
\* KeyError for a column the table does not have
columns_looked_up == {"Employee_Number", "AsOfDate", "Percent"}

validation_raises(t) == ~(columns_looked_up \subseteq columns(t))

\* the list returned for a table on which no lookup raises
run_allocation_validation_tests(t) ==
    LET employees == unique([i \in DOMAIN t |-> t[i].Employee_Number])
        negative_percentages == SelectSeq(t, LAMBDA r : r.Percent < 0)
        missing_columns == SelectSeq(required_columns, LAMBDA col : col \notin columns(t))
    IN  Flatten([i \in DOMAIN employees |-> employee_findings(t, employees[i])])
        \o (IF Len(negative_percentages) > 0
            THEN <<[kind |-> "negative", count |-> Len(negative_percentages)]>>
            ELSE << >>)
        \o (IF missing_columns # << >>
            THEN <<[kind |-> "missing_columns", missing_columns |-> missing_columns]>>
            ELSE << >>)

(***************************************************************************)
(* get_sprint_info                                                         *)
(***************************************************************************)
\* Python's None, and a present value, for results and module-level variables
None == << >>
Some(v) == <<v>>

\* the last day number get_sprint_info is called with (past the end of 2025)
MaxDay == 370

\* "each sprint is 14 days", "cap at 26 sprints per year"
sprint_days == 14
sprint_cap == 26

\* pd.Timestamp('2025-01-01') as a day number
sprint_start == 0

min(a, b) == IF a <= b THEN a ELSE b

RECURSIVE DayFrom(_, _)
DayFrom(day_of_year, m) ==
    IF day_of_year < MonthLen[m] THEN day_of_year + 1
    ELSE DayFrom(day_of_year - MonthLen[m], m + 1)

MonthAbbr == <<"Jan", "Feb", "Mar", "Apr", "May", "Jun",
               "Jul", "Aug", "Sep", "Oct", "Nov", "Dec">>

\* the decimal digits of a natural number
RECURSIVE digits(_)
digits(n) == IF n < 10 THEN <<n>> ELSE Append(digits(n \div 10), n % 10)

\* f"{n:02d}": at least two digits
format_02d(n) == IF n < 10 THEN <<0, n>> ELSE digits(n)

\* strftime('%d-%b'): day of the month and month name, without the year
strftime_db(d) == <<format_02d(DayFrom(d % 365, 1)), MonthAbbr[MonthFrom(d % 365, 1)]>>

\* faulty variant: the sprint number is not capped
sprint_number_uncapped(days_since_start) ==
    (days_since_start \div sprint_days) + 1

\* lines 606-610: 1-based sprint number, capped
sprint_number(days_since_start) ==
    min((days_since_start \div sprint_days) + 1, sprint_cap)

\* the returned text "Sprint ##, DD-MMM" as its parts, None before the start
get_sprint_info(date) ==
    LET days_since_start == date - sprint_start
    IN  IF days_since_start < 0 THEN None
        ELSE LET number == sprint_number(days_since_start)
                 sprint_end_date == sprint_start + (number - 1) * sprint_days + 13
             IN  Some([text |-> "Sprint", number |-> format_02d(number),
                       end_date_formatted |-> strftime_db(sprint_end_date)])

(***************************************************************************)
(* add_calculated_columns                                                  *)
(***************************************************************************)
\* row[col] = v, adding the column when the row has none of that name
with_column(row, col, v) ==
    [c \in (DOMAIN row) \cup {col} |-> IF c = col THEN v ELSE row[c]]

RECURSIVE with_columns(_, _)
with_columns(row, assignments) ==
    IF assignments = << >> THEN row
    ELSE with_columns(with_column(row, Head(assignments)[1], Head(assignments)[2]),
                      Tail(assignments))

\* Series.fillna('')
fillna(v) == IF v = NaN THEN "" ELSE v

\* last_name + ', ' + first_name with a leading "^, " and a trailing ", $"
\* removed: the non-empty names, which the text joins with ", "
employee_name(last_name, first_name) ==
    SelectSeq(<<fillna(last_name), fillna(first_name)>>, LAMBDA w : w # "")

\* the columns the function reads; a table without one of them makes the
\* column lookup raise KeyError
columns_read == {"AsOfDate", "Percent", "Last_Name", "First_Name"}

\* lines 636-673 for one row; fractions are <<numerator, denominator>>
calculated_row(row, now) ==
    LET d     == row.AsOfDate
        year  == 2025 + (d \div 365)
        month == MonthFrom(d % 365, 1)
    IN  with_columns(row,
            << <<"Year", year>>,
               <<"YearMonth", <<year, "_", format_02d(month)>> >>,
               <<"Sprint", get_sprint_info(d)>>,
               <<"Sprint_Allocation", <<1, sprint_days>> >>,
               <<"RunDate", now>>,
               <<"days_in_month", MonthLen[month]>>,
               <<"Allocation", <<row.Percent, MonthLen[month]>> >>,
               <<"Employee_Name", employee_name(row.Last_Name, row.First_Name)>> >>)

\* add_calculated_columns(df) without db_filename, called at time now: the
\* copy with the calculated columns, or df itself from the except branch
add_calculated_columns_of(t, now) ==
    IF columns_read \subseteq columns(t)
    THEN [i \in DOMAIN t |-> calculated_row(t[i], now)]
    ELSE t

(***************************************************************************)
(* The state machine                                                       *)
(***************************************************************************)
\* get_sprint_info has not returned yet
NotCalled == << >>

\* neither add_calculated_columns nor get_sprint_info has been called
CalcIdle ==
    /\ result_df = << >>
    /\ asof_date = 0
    /\ sprint = NotCalled

\* no hierarchy query has been called yet
NoCall == [fn |-> "none", employee_number |-> 0, level |-> 0, db_filename |-> ""]

\* no hierarchy query has been made: the module-level caches are still None
\* ("_supervisor_cache = None", "_employee_names_cache = None")
HierIdle ==
    /\ supervisor_cache = None
    /\ employee_names_cache = None
    /\ hpc = "idle"
    /\ call = NoCall
    /\ current_employee = 0
    /\ visited = {}
    /\ path_to_top = << >>
    /\ level_count = 0
    /\ max_levels = 0
    /\ key_idx = 0
    /\ retval = None

InitWith(pcts) ==
    /\ \E n \in 1..MaxRows :
          \E ks \in [1..n -> 1..RowCount(pcts)] :
              /\ InDomainOrder(ks)
              /\ df = TableOf(ks, pcts)
    /\ tblUKG = << >>
    /\ HierIdle
    /\ CalcIdle
    /\ pc = "start"
    /\ df_sorted = << >>
    /\ max_date = 0
    /\ unique_team_assignments = << >>
    /\ assignment_idx = 0
    /\ expanded_rows = << >>
    /\ result = << >>
    /\ errors = << >>

Init == InitWith(PercentSeq)

InitAlloc == InitWith(AllocPercentSeq)

\* pd.to_datetime(df_sorted['AsOfDate']) raises on a value that is no date
to_datetime_raises(t) == \E i \in DOMAIN t : t[i].AsOfDate = NotADate

\* faulty variant: the input table is sorted in place (inplace=True)
frame_after_sort_inplace(t, cols) == sort_values(t, cols)

\* line 496: df.sort_values(...) returns a new table; the table it is called
\* on stays as it is
frame_after_sort(t, cols) == t

\* lines 496-513: sort, date range, unique team assignments; when the date
\* conversion raises, the except branch of lines 581-583 returns the input table
Prepare ==
    /\ pc = "start"
    /\ IF to_datetime_raises(df)
       THEN /\ result' = df
            /\ pc' = "done"
            /\ UNCHANGED <<df_sorted, max_date, unique_team_assignments,
                           assignment_idx, expanded_rows>>
       ELSE /\ df_sorted' = sort_values(df, grouping_cols \o <<"AsOfDate">>)
            /\ max_date' = SetMax({df_sorted'[i].AsOfDate : i \in DOMAIN df_sorted'})
            /\ unique_team_assignments' = drop_duplicates(df_sorted')
            /\ assignment_idx' = 0
            /\ expanded_rows' = << >>
            /\ pc' = "loop"
            /\ UNCHANGED result
    /\ df' = frame_after_sort(df, grouping_cols \o <<"AsOfDate">>)
    /\ UNCHANGED errors
    /\ UNCHANGED <<calc_vars, hier_vars>>

\* lines 516-566: one team assignment, all of its periods
ProcessAssignment ==
    /\ pc = "loop"
    /\ assignment_idx < Len(unique_team_assignments)
    /\ expanded_rows' = expanded_rows \o
           assignment_rows(df_sorted, unique_team_assignments[assignment_idx + 1], max_date)
    /\ assignment_idx' = assignment_idx + 1
    /\ UNCHANGED <<df, pc, df_sorted, max_date, unique_team_assignments, result, errors>>
    /\ UNCHANGED <<calc_vars, hier_vars>>

\* faulty variant: without expanded rows an empty table is returned
returned_table_or_empty(t, rows) ==
    IF rows = << >>
    THEN << >>
    ELSE sort_values(rows, <<"Employee_Number", "Team", "AsOfDate">>)

\* lines 568-583: the sorted expanded table; with no expanded row
\* pd.DataFrame([]) has no column AsOfDate, the lookup of line 572 raises and
\* the except branch returns the input table
returned_table(t, rows) ==
    IF rows = << >>
    THEN t
    ELSE sort_values(rows, <<"Employee_Number", "Team", "AsOfDate">>)

\* lines 568-583: build, sort and return the expanded table
Finish ==
    /\ pc = "loop"
    /\ assignment_idx = Len(unique_team_assignments)
    /\ result' = returned_table(df, expanded_rows)
    /\ pc' = "done"
    /\ UNCHANGED <<df, df_sorted, max_date, unique_team_assignments,
                   assignment_idx, expanded_rows, errors>>
    /\ UNCHANGED <<calc_vars, hier_vars>>

\* errors = run_allocation_validation_tests(expanded_df), on the table the
\* expansion returned or on the output table with the configured columns; a
\* KeyError leaves the function without a returned list
Validate ==
    /\ pc \in {"done", "filtered"}
    /\ IF validation_raises(result)
       THEN /\ pc' = "raised"
            /\ UNCHANGED errors
       ELSE /\ errors' = run_allocation_validation_tests(result)
            /\ pc' = "validated"
    /\ UNCHANGED <<df, df_sorted, max_date, unique_team_assignments,
                   assignment_idx, expanded_rows, result>>
    /\ UNCHANGED <<calc_vars, hier_vars>>

Next == Prepare \/ ProcessAssignment \/ Finish \/ Validate

Spec == Init /\ [][Next]_vars

SpecAlloc == InitAlloc /\ [][Next]_vars

\* tables of poor quality: rows without Team, rows with an unparseable date
InitDirty ==
    /\ \E n \in 1..MaxRows :
          \E ks \in [1..n -> 1..(Len(DirtyAssignmentSeq) * Len(DirtyDateSeq)
                                    * Len(DirtyPercentSeq))] :
              /\ InDomainOrder(ks)
              /\ df = [i \in DOMAIN ks |->
                           RowFrom(DirtyAssignmentSeq, DirtyDateSeq, DirtyPercentSeq, ks[i])]
    /\ tblUKG = << >>
    /\ HierIdle
    /\ CalcIdle
    /\ pc = "start"
    /\ df_sorted = << >>
    /\ max_date = 0
    /\ unique_team_assignments = << >>
    /\ assignment_idx = 0
    /\ expanded_rows = << >>
    /\ result = << >>
    /\ errors = << >>

\* the expansion alone
NextExpand == Prepare \/ ProcessAssignment \/ Finish

SpecDirty == InitDirty /\ [][NextExpand]_vars

\* the expansion alone over tables of exits and one positive percent
ScopePercentSeq == <<0, 60>>

InitScope == InitWith(ScopePercentSeq)

SpecScope == InitScope /\ [][NextExpand]_vars

\* the expansion alone over tables with negative percents, exits and one
\* positive percent
SignedPercentSeq == <<-10, 0, 60>>

InitSigned == InitWith(SignedPercentSeq)

SpecSigned == InitSigned /\ [][NextExpand]_vars

\* the caller keeps the returned table and calls expand_with_missing_dates
\* again with the same input table; the locals of the first call are gone
Rerun ==
    /\ pc = "done"
    /\ pc' = "start"
    /\ df_sorted' = << >>
    /\ max_date' = 0
    /\ unique_team_assignments' = << >>
    /\ assignment_idx' = 0
    /\ expanded_rows' = << >>
    /\ UNCHANGED <<df, result, errors>>
    /\ UNCHANGED <<calc_vars, hier_vars>>

NextTwice == Prepare \/ ProcessAssignment \/ Finish \/ Rerun

\* repeated runs of the expansion on one input table
SpecTwice == InitScope /\ [][NextTwice]_vars

(***************************************************************************)
(* The organisational hierarchy: table tblUKG and the cached dictionaries  *)
(***************************************************************************)
\* employee numbers of tblUKG are 1 .. MaxEmp
MaxEmp == 3

EmployeeNumbers == 1..MaxEmp

\* SQL NULL in a numeric column; a table without a row for an employee
NULL == 0
NoRow == -1

\* First_Name and Last_Name by employee number; "" stands for NULL, which the
\* cache builder replaces by "" (both names, first only, none, last only, ...)
FirstNames == <<"Ann", "Bob", "", "", "Eve", "Fay">>
LastNames  == <<"Lee", "", "", "Kim", "Roe", "Poe">>

UKGRow(e, s) ==
    [Employee_Number |-> e, Supervisor_Number |-> s,
     First_Name |-> FirstNames[e], Last_Name |-> LastNames[e]]

\* the table with one row per employee e with sup_of[e] # NoRow, in employee order
UKGTable(sup_of) ==
    SelectSeq([e \in DOMAIN sup_of |-> UKGRow(e, sup_of[e])],
              LAMBDA r : r.Supervisor_Number # NoRow)

\* the database files of the runs
DbSeq == <<"run1.db", "run2.db">>

\* a Python dict: its (key, value) pairs in insertion order
dict_has(d, k) == \E i \in DOMAIN d : d[i][1] = k
dict_get(d, k) == d[CHOOSE i \in DOMAIN d : d[i][1] = k][2]
dict_set(d, k, v) ==
    IF dict_has(d, k)
    THEN [i \in DOMAIN d |-> IF d[i][1] = k THEN <<k, v>> ELSE d[i]]
    ELSE Append(d, <<k, v>>)
dict_keys(d) == [i \in DOMAIN d |-> d[i][1]]

\* f"{first_name} {last_name}".strip(), as the list of its words; the empty
\* list is the empty string, which the cache stores as None
full_name(first_name, last_name) ==
    SelectSeq(<<first_name, last_name>>, LAMBDA w : w # "")

\* _supervisor_cache[emp_str] = sup_str over the rows with both numbers present
RECURSIVE supervisor_dict(_)
supervisor_dict(rows) ==
    IF rows = << >> THEN << >>
    ELSE LET row == rows[Len(rows)]
             d   == supervisor_dict(SubSeq(rows, 1, Len(rows) - 1))
         IN  IF row.Employee_Number # NULL /\ row.Supervisor_Number # NULL
             THEN dict_set(d, row.Employee_Number, row.Supervisor_Number)
             ELSE d

\* _employee_names_cache[emp_str] = full_name if full_name else None
RECURSIVE names_dict(_)
names_dict(rows) ==
    IF rows = << >> THEN << >>
    ELSE LET row == rows[Len(rows)]
             d   == names_dict(SubSeq(rows, 1, Len(rows) - 1))
         IN  IF row.Employee_Number # NULL
             THEN dict_set(d, row.Employee_Number, full_name(row.First_Name, row.Last_Name))
             ELSE d

\* the two dictionaries read from one database; a file without table tblUKG
\* makes the query raise, and the except branch stores two empty dictionaries
read_caches(source) ==
    IF source = None THEN <<Some(<< >>), Some(<< >>)>>
    ELSE <<Some(supervisor_dict(source[1])), Some(names_dict(source[1]))>>

\* faulty variant: the caches are rebuilt on every call
build_supervisor_cache_always(sup_cache, names_cache, source) ==
    read_caches(source)

\* _build_supervisor_cache: the caches after the call, <<supervisor, names>>
build_supervisor_cache(sup_cache, names_cache, source) ==
    IF sup_cache # None THEN <<sup_cache, names_cache>>
    ELSE read_caches(source)

(***************************************************************************)
(* The hierarchy walks                                                     *)
(***************************************************************************)
\* faulty variant: no node ever counts as visited
circular_never(employee, visited_set) == FALSE

\* "if current_employee in visited"
circular(employee, visited_set) == employee \in visited_set

\* list(reversed(path_to_top))
reversed(s) == [i \in DOMAIN s |-> s[Len(s) - i + 1]]

\* faulty variant: level 1 = index 1
manager_at_level_off_by_one(path_from_top, level, names) ==
    IF level + 1 <= Len(path_from_top)
    THEN LET manager_employee == path_from_top[level + 1]
         IN  IF dict_has(names, manager_employee)
             THEN dict_get(names, manager_employee)
             ELSE None
    ELSE None

\* lines 819-825: the name at the given level of the path, level 1 = index 0
manager_at_level(path_from_top, level, names) ==
    IF level <= Len(path_from_top)
    THEN LET manager_employee == path_from_top[level]
         IN  IF dict_has(names, manager_employee)
             THEN dict_get(names, manager_employee)
             ELSE None
    ELSE None

\* faulty variant: the depth walk leaves its loop on a repeated node and
\* returns the count, as the other two walks do
level_when_circular_break(count) == Some(count)

\* lines 899-901: the depth walk returns None on a repeated node
level_when_circular(count) == None

\* "employee_str not in _supervisor_cache and employee_str not in _employee_names_cache"
unknown_employee(sup, names, employee_str) ==
    ~dict_has(sup, employee_str) /\ ~dict_has(names, employee_str)

max(a, b) == IF a >= b THEN a ELSE b

\* the employee numbers and levels the queries are made with
QueryEmployees == 1..(MaxEmp + 1)
Levels == 0..(MaxEmp + 2)

\* get_manager_at_level_from_top up to its loop (lines 787-805)
get_manager_at_level_from_top ==
    /\ hpc = "idle"
    /\ \E employee_number \in QueryEmployees, level \in Levels, db_filename \in DOMAIN tblUKG :
          LET caches == build_supervisor_cache(supervisor_cache, employee_names_cache,
                                               tblUKG[db_filename])
          IN  /\ supervisor_cache' = caches[1]
              /\ employee_names_cache' = caches[2]
              /\ call' = [fn |-> "get_manager_at_level_from_top",
                          employee_number |-> employee_number,
                          level |-> level, db_filename |-> db_filename]
              /\ IF level <= 0 \/ unknown_employee(caches[1][1], caches[2][1], employee_number)
                 THEN /\ current_employee' = 0
                      /\ path_to_top' = << >>
                      /\ hpc' = "returned"
                 ELSE /\ current_employee' = employee_number
                      /\ path_to_top' = <<employee_number>>
                      /\ hpc' = "manager_loop"
    /\ visited' = {}
    /\ retval' = None
    /\ UNCHANGED <<tblUKG, level_count, max_levels, key_idx>>
    /\ UNCHANGED <<expand_vars, calc_vars>>

\* one iteration of the loop of lines 807-814, or the rest of the function
manager_loop ==
    /\ hpc = "manager_loop"
    /\ IF /\ dict_has(supervisor_cache[1], current_employee)
          /\ ~circular(current_employee, visited)
       THEN /\ visited' = visited \cup {current_employee}
            /\ current_employee' = dict_get(supervisor_cache[1], current_employee)
            /\ path_to_top' = Append(path_to_top, current_employee')
            /\ UNCHANGED <<hpc, retval>>
       ELSE /\ retval' = manager_at_level(reversed(path_to_top), call.level,
                                          employee_names_cache[1])
            /\ hpc' = "returned"
            /\ UNCHANGED <<visited, current_employee, path_to_top>>
    /\ UNCHANGED <<tblUKG, supervisor_cache, employee_names_cache, call,
                   level_count, max_levels, key_idx>>
    /\ UNCHANGED <<expand_vars, calc_vars>>

\* get_employee_level_from_top up to its loop (lines 882-895)
get_employee_level_from_top ==
    /\ hpc = "idle"
    /\ \E employee_number \in QueryEmployees, db_filename \in DOMAIN tblUKG :
          LET caches == build_supervisor_cache(supervisor_cache, employee_names_cache,
                                               tblUKG[db_filename])
          IN  /\ supervisor_cache' = caches[1]
              /\ employee_names_cache' = caches[2]
              /\ call' = [fn |-> "get_employee_level_from_top",
                          employee_number |-> employee_number,
                          level |-> 0, db_filename |-> db_filename]
              /\ IF unknown_employee(caches[1][1], caches[2][1], employee_number)
                 THEN /\ current_employee' = 0
                      /\ hpc' = "returned"
                 ELSE /\ current_employee' = employee_number
                      /\ hpc' = "level_loop"
    /\ visited' = {}
    /\ level_count' = 0
    /\ path_to_top' = << >>
    /\ retval' = None
    /\ UNCHANGED <<tblUKG, max_levels, key_idx>>
    /\ UNCHANGED <<expand_vars, calc_vars>>

\* one iteration of the loop of lines 898-905, or the return
level_loop ==
    /\ hpc = "level_loop"
    /\ IF dict_has(supervisor_cache[1], current_employee)
       THEN IF circular(current_employee, visited)
            THEN /\ retval' = level_when_circular(level_count)
                 /\ hpc' = "returned"
                 /\ UNCHANGED <<visited, current_employee, level_count>>
            ELSE /\ visited' = visited \cup {current_employee}
                 /\ current_employee' = dict_get(supervisor_cache[1], current_employee)
                 /\ level_count' = level_count + 1
                 /\ UNCHANGED <<hpc, retval>>
       ELSE /\ retval' = Some(level_count)
            /\ hpc' = "returned"
            /\ UNCHANGED <<visited, current_employee, level_count>>
    /\ UNCHANGED <<tblUKG, supervisor_cache, employee_names_cache, call,
                   path_to_top, max_levels, key_idx>>
    /\ UNCHANGED <<expand_vars, calc_vars>>

\* get_max_org_levels up to its loop over the keys (lines 840-845)
get_max_org_levels ==
    /\ hpc = "idle"
    /\ \E db_filename \in DOMAIN tblUKG :
          LET caches == build_supervisor_cache(supervisor_cache, employee_names_cache,
                                               tblUKG[db_filename])
          IN  /\ supervisor_cache' = caches[1]
              /\ employee_names_cache' = caches[2]
              /\ call' = [fn |-> "get_max_org_levels", employee_number |-> 0,
                          level |-> 0, db_filename |-> db_filename]
    /\ max_levels' = 0
    /\ key_idx' = 0
    /\ current_employee' = 0
    /\ visited' = {}
    /\ level_count' = 0
    /\ path_to_top' = << >>
    /\ retval' = None
    /\ hpc' = "max_keys"
    /\ UNCHANGED tblUKG
    /\ UNCHANGED <<expand_vars, calc_vars>>

\* the next key of "for employee_str in _supervisor_cache.keys()", or the return
max_next_key ==
    /\ hpc = "max_keys"
    /\ IF key_idx < Len(supervisor_cache[1])
       THEN /\ current_employee' = dict_keys(supervisor_cache[1])[key_idx + 1]
            /\ key_idx' = key_idx + 1
            /\ visited' = {}
            /\ level_count' = 0
            /\ hpc' = "max_loop"
            /\ UNCHANGED retval
       ELSE /\ retval' = Some(max_levels)
            /\ hpc' = "returned"
            /\ UNCHANGED <<current_employee, key_idx, visited, level_count>>
    /\ UNCHANGED <<tblUKG, supervisor_cache, employee_names_cache, call,
                   path_to_top, max_levels>>
    /\ UNCHANGED <<expand_vars, calc_vars>>

\* one iteration of the loop of lines 853-860, or "max_levels = max(...)"
max_loop ==
    /\ hpc = "max_loop"
    /\ IF /\ dict_has(supervisor_cache[1], current_employee)
          /\ ~circular(current_employee, visited)
       THEN /\ visited' = visited \cup {current_employee}
            /\ current_employee' = dict_get(supervisor_cache[1], current_employee)
            /\ level_count' = level_count + 1
            /\ UNCHANGED <<hpc, max_levels>>
       ELSE /\ max_levels' = max(max_levels, level_count)
            /\ hpc' = "max_keys"
            /\ UNCHANGED <<visited, current_employee, level_count>>
    /\ UNCHANGED <<tblUKG, supervisor_cache, employee_names_cache, call,
                   path_to_top, key_idx, retval>>
    /\ UNCHANGED <<expand_vars, calc_vars>>

\* the caller (add_calculated_columns, lines 678-691) takes the returned
\* value; the locals of the call are gone
caller_resumes ==
    /\ hpc = "returned"
    /\ hpc' = "idle"
    /\ call' = NoCall
    /\ current_employee' = 0
    /\ visited' = {}
    /\ path_to_top' = << >>
    /\ level_count' = 0
    /\ max_levels' = 0
    /\ key_idx' = 0
    /\ retval' = None
    /\ UNCHANGED <<tblUKG, supervisor_cache, employee_names_cache>>
    /\ UNCHANGED <<expand_vars, calc_vars>>

\* no table is being expanded
ExpandIdle ==
    /\ df = << >>
    /\ pc = "idle"
    /\ df_sorted = << >>
    /\ max_date = 0
    /\ unique_team_assignments = << >>
    /\ assignment_idx = 0
    /\ expanded_rows = << >>
    /\ result = << >>
    /\ errors = << >>

\* one database, holding any table over the employee numbers
InitHier ==
    /\ ExpandIdle
    /\ CalcIdle
    /\ \E sup_of \in [EmployeeNumbers -> {NoRow, NULL} \cup EmployeeNumbers] :
          tblUKG = [db \in {DbSeq[1]} |-> Some(UKGTable(sup_of))]
    /\ HierIdle

\* two runs in one process: the first database holds any table in which every
\* employee has a row, the second one a flat organisation or no table tblUKG
InitRuns ==
    /\ ExpandIdle
    /\ CalcIdle
    /\ \E sup_of \in [EmployeeNumbers -> {NULL} \cup EmployeeNumbers] :
          \E second \in {None, Some(UKGTable([e \in EmployeeNumbers |-> NULL]))} :
              tblUKG = [db \in {DbSeq[1], DbSeq[2]} |->
                           IF db = DbSeq[1] THEN Some(UKGTable(sup_of)) ELSE second]
    /\ HierIdle

NextHier ==
    \/ get_manager_at_level_from_top
    \/ manager_loop
    \/ get_employee_level_from_top
    \/ level_loop
    \/ get_max_org_levels
    \/ max_next_key
    \/ max_loop
    \/ caller_resumes

SpecHier == InitHier /\ [][NextHier]_vars

SpecRuns == InitRuns /\ [][NextHier]_vars

(***************************************************************************)
(* add_calculated_columns on the output of the expansion                   *)
(***************************************************************************)
\* Last_Name and First_Name of the test employees ('John Doe', 'Jane Smith');
\* the second one without first name
LastNameOf(e) == IF e = "TEST001" THEN "Doe" ELSE "Smith"
FirstNameOf(e) == IF e = "TEST001" THEN "John" ELSE NaN

\* the table with the name columns of the join with the employee table
with_names(t) ==
    [i \in DOMAIN t |->
        with_columns(t[i], << <<"Last_Name", LastNameOf(t[i].Employee_Number)>>,
                              <<"First_Name", FirstNameOf(t[i].Employee_Number)>> >>)]

\* datetime.now(): the script runs on one of the two days after the last snapshot
RunDates == (FirstDate + MaxSpan + 1)..(FirstDate + MaxSpan + 2)

\* result_df = add_calculated_columns(expanded_df)
add_calculated_columns ==
    /\ pc = "done"
    /\ \E now \in RunDates : result_df' = add_calculated_columns_of(result, now)
    /\ pc' = "calculated"
    /\ UNCHANGED <<df, df_sorted, max_date, unique_team_assignments,
                   assignment_idx, expanded_rows, result, errors>>
    /\ UNCHANGED <<asof_date, sprint>>
    /\ UNCHANGED hier_vars

\* input tables with the assignment columns alone, as in the test, or with
\* the name columns, as in the pipeline
InitCalc ==
    /\ \E n \in 1..MaxRows :
          \E ks \in [1..n -> 1..RowCount(ScopePercentSeq)] :
              /\ InDomainOrder(ks)
              /\ df \in {TableOf(ks, ScopePercentSeq), with_names(TableOf(ks, ScopePercentSeq))}
    /\ tblUKG = << >>
    /\ HierIdle
    /\ CalcIdle
    /\ pc = "start"
    /\ df_sorted = << >>
    /\ max_date = 0
    /\ unique_team_assignments = << >>
    /\ assignment_idx = 0
    /\ expanded_rows = << >>
    /\ result = << >>
    /\ errors = << >>

NextCalc == Prepare \/ ProcessAssignment \/ Finish \/ add_calculated_columns

SpecCalc == InitCalc /\ [][NextCalc]_vars

(***************************************************************************)
(* The validator on an output table with configured columns                *)
(***************************************************************************)
\* final_df[final_columns]
keep_columns(t, cols) == [i \in DOMAIN t |-> [c \in cols |-> t[i][c]]]

\* apply_field_configuration with a field configuration that names all
\* columns of the table but one
apply_field_configuration ==
    /\ pc = "done"
    /\ \E col \in columns(result) :
          result' = keep_columns(result, columns(result) \ {col})
    /\ pc' = "filtered"
    /\ UNCHANGED <<df, df_sorted, max_date, unique_team_assignments,
                   assignment_idx, expanded_rows, errors>>
    /\ UNCHANGED <<calc_vars, hier_vars>>

NextFields ==
    Prepare \/ ProcessAssignment \/ Finish \/ apply_field_configuration \/ Validate

SpecFields == InitScope /\ [][NextFields]_vars

(***************************************************************************)
(* Calls of get_sprint_info                                                *)
(***************************************************************************)
\* the dates get_sprint_info is called with: from one sprint length before
\* the sprint start up to MaxDay
SprintDates == (sprint_start - sprint_days)..MaxDay

\* a call of get_sprint_info with the date asof_date
call_get_sprint_info ==
    /\ sprint = NotCalled
    /\ sprint' = Some(get_sprint_info(asof_date))
    /\ UNCHANGED <<result_df, asof_date>>
    /\ UNCHANGED <<expand_vars, hier_vars>>

InitSprint ==
    /\ ExpandIdle
    /\ HierIdle
    /\ tblUKG = << >>
    /\ result_df = << >>
    /\ asof_date \in SprintDates
    /\ sprint = NotCalled

NextSprint == call_get_sprint_info

SpecSprint == InitSprint /\ [][NextSprint]_vars

(***************************************************************************)
(* Vocabulary of the properties                                            *)
(***************************************************************************)
\* expand_with_missing_dates has just returned
Done == pc = "done"

\* some input row has a positive percent, so the expansion emits records
\* (otherwise the function returns the input table unexpanded)
HasPositiveRow == \E i \in DOMAIN df : df[i].Percent > 0

\* the days on which records can lie, with one day of margin on both sides
DayRange == (FirstDate - 1)..(FirstDate + MaxSpan + 1)

RowsOfEmployee(e) == {i \in DOMAIN df : df[i].Employee_Number = e}

SnapshotDates(e) == {df[i].AsOfDate : i \in RowsOfEmployee(e)}

\* the breakpoints (input rows) of the assignment group of input row i
Breakpoints(i) == {j \in DOMAIN df : GroupKey(df[j]) = GroupKey(df[i])}

\* the output records of the assignment group of input row i dated d
GroupRecords(i, d) ==
    {k \in DOMAIN result : GroupKey(result[k]) = GroupKey(df[i]) /\ result[k].AsOfDate = d}

CountIn(t, r) == Cardinality({k \in DOMAIN t : t[k] = r})

OnDay(r, d) == [r EXCEPT !.AsOfDate = d]

\* the last day before the employee's next snapshot after date d, or the global maximum
SpanEnd(e, d) ==
    IF \E x \in SnapshotDates(e) : x > d
    THEN SetMin({x \in SnapshotDates(e) : x > d}) - 1
    ELSE SetMax({df[i].AsOfDate : i \in DOMAIN df})

GlobalMax == SetMax({df[i].AsOfDate : i \in DOMAIN df})

C2_PerGroupScope ==
    Done =>
    \A i, j \in DOMAIN df :
        (/\ df[i].Employee_Number = df[j].Employee_Number
         /\ GroupKey(df[i]) # GroupKey(df[j])
         /\ df[i].Percent = 0
         /\ df[j].Percent > 0
         /\ df[j].AsOfDate < df[i].AsOfDate
         /\ \A b \in Breakpoints(j) : df[b].AsOfDate # df[i].AsOfDate)
        => GroupRecords(j, df[i].AsOfDate) # {}

(***************************************************************************)
(* C2 amended: the period end is scoped per employee. A 0% breakpoint of   *)
(* group G at date D also ends the running period of every other group G'  *)
(* of the same employee: G' has no record on any day from D on until its   *)
(* own next breakpoint.                                                    *)
(***************************************************************************)
C2_PerEmployeeScope ==
    Done =>
    \A i, j \in DOMAIN df :
        (/\ df[i].Employee_Number = df[j].Employee_Number
         /\ GroupKey(df[i]) # GroupKey(df[j])
         /\ df[i].Percent = 0
         /\ df[j].Percent > 0
         /\ df[j].AsOfDate < df[i].AsOfDate
         /\ \A b \in Breakpoints(j) : df[b].AsOfDate # df[i].AsOfDate)
        => \A d \in DayRange :
              (/\ d >= df[i].AsOfDate
               /\ \A b \in Breakpoints(j) : ~(df[i].AsOfDate <= df[b].AsOfDate /\ df[b].AsOfDate <= d))
              => GroupRecords(j, d) = {}

\* G' is positive up to D-1, G has its 0% breakpoint at D, and the horizon reaches D
C2_Witness ==
    /\ Done
    /\ \E i, j \in DOMAIN df :
          /\ df[i].Employee_Number = df[j].Employee_Number
          /\ GroupKey(df[i]) # GroupKey(df[j])
          /\ df[i].Percent = 0 /\ df[j].Percent > 0
          /\ df[j].AsOfDate < df[i].AsOfDate
          /\ Breakpoints(j) = {j}
          /\ GroupRecords(j, df[i].AsOfDate - 1) # {}
          /\ GroupRecords(j, df[i].AsOfDate) = {}

(***************************************************************************)
(* C3 as stated: ENDED is terminal. Once a group has a 0% breakpoint at    *)
(* date D the output holds no record of that group dated D or later, also  *)
(* when the group has a later breakpoint with positive percent. (Stated    *)
(* for expansions that emit records and for 0% breakpoints that share      *)
(* their date with no positive breakpoint of the group.)                   *)
(***************************************************************************)
C3_EndedTerminal ==
    (Done /\ HasPositiveRow) =>
    \A i \in DOMAIN df :
        (/\ df[i].Percent = 0
         /\ \A b \in Breakpoints(i) : df[b].AsOfDate = df[i].AsOfDate => df[b].Percent = 0)
        => \A d \in DayRange : d >= df[i].AsOfDate => GroupRecords(i, d) = {}

(***************************************************************************)
(* C3 amended: a 0% breakpoint at date D suspends the group, it does not   *)
(* end it. When the expansion emits records, the group has no record on    *)
(* any day from D on up to its next breakpoint with positive percent; from *)
(* that breakpoint on records are emitted again.                           *)
(***************************************************************************)
C3_EndedUntilNextPositive ==
    (Done /\ HasPositiveRow) =>
    \A i \in DOMAIN df :
        df[i].Percent = 0 =>
        /\ \A d \in DayRange :
              (/\ d >= df[i].AsOfDate
               /\ \A b \in Breakpoints(i) :
                     df[b].Percent > 0 => ~(df[i].AsOfDate <= df[b].AsOfDate /\ df[b].AsOfDate <= d))
              => GroupRecords(i, d) = {}
        /\ \A b \in Breakpoints(i) :
              (df[b].Percent > 0 /\ df[b].AsOfDate > df[i].AsOfDate)
              => CountIn(result, df[b]) >= 1

\* positive, 0%, positive in one group: nothing on the 0% date, records again afterwards
C3_Witness ==
    /\ Done
    /\ \E i \in DOMAIN df :
          /\ df[i].Percent = 0
          /\ \E a, b \in Breakpoints(i) :
                /\ df[a].Percent > 0 /\ df[a].AsOfDate < df[i].AsOfDate
                /\ df[b].Percent > 0 /\ df[b].AsOfDate > df[i].AsOfDate
                /\ GroupRecords(i, df[a].AsOfDate) # {}
                /\ GroupRecords(i, df[i].AsOfDate) = {}
                /\ GroupRecords(i, df[b].AsOfDate) # {}

(***************************************************************************)
(* C4 as stated: forward-fill without interpolation. Every record of a     *)
(* group dated d carries the percent of the group's latest breakpoint with *)
(* date <= d, and a record exists for every day strictly between two       *)
(* consecutive breakpoints i and i+1 of the group when breakpoint i is     *)
(* positive.                                                               *)
(***************************************************************************)
C4_ForwardFillBetweenBreakpoints ==
    Done =>
    /\ \A k \in DOMAIN result :
          \E i \in DOMAIN df :
              /\ GroupKey(df[i]) = GroupKey(result[k])
              /\ df[i].AsOfDate <= result[k].AsOfDate
              /\ \A b \in Breakpoints(i) :
                    df[b].AsOfDate <= result[k].AsOfDate => df[b].AsOfDate <= df[i].AsOfDate
              /\ result[k].Percent = df[i].Percent
    /\ \A i, j \in DOMAIN df :
          (/\ GroupKey(df[i]) = GroupKey(df[j])
           /\ df[i].AsOfDate < df[j].AsOfDate
           /\ \A b \in Breakpoints(i) :
                 ~(df[i].AsOfDate < df[b].AsOfDate /\ df[b].AsOfDate < df[j].AsOfDate)
           /\ df[i].Percent > 0)
          => \A d \in DayRange :
                (df[i].AsOfDate < d /\ d < df[j].AsOfDate)
                => CountIn(result, OnDay(df[i], d)) >= 1

(***************************************************************************)
(* C4 amended: every record of a group dated d carries the percent of a    *)
(* breakpoint of the group at the group's latest breakpoint date <= d, and *)
(* for a positive breakpoint i such a record exists for every day from     *)
(* breakpoint i's date through the day before the employee's next snapshot *)
(* date in any group (the global maximum date when there is none), which   *)
(* may be earlier than the day before breakpoint i+1 of the group.         *)
(***************************************************************************)
C4_ForwardFillUntilNextSnapshot ==
    Done =>
    /\ \A k \in DOMAIN result :
          \E i \in DOMAIN df :
              /\ GroupKey(df[i]) = GroupKey(result[k])
              /\ df[i].AsOfDate <= result[k].AsOfDate
              /\ \A b \in Breakpoints(i) :
                    df[b].AsOfDate <= result[k].AsOfDate => df[b].AsOfDate <= df[i].AsOfDate
              /\ result[k].Percent = df[i].Percent
    /\ \A i \in DOMAIN df :
          df[i].Percent > 0
          => \A d \in df[i].AsOfDate..SpanEnd(df[i].Employee_Number, df[i].AsOfDate) :
                CountIn(result, OnDay(df[i], d)) >= 1

\* a group with two breakpoints of different percent two days apart, the first one
\* positive and filled forward over the day in between
C4_Witness ==
    /\ Done
    /\ \E i, j \in DOMAIN df :
          /\ GroupKey(df[i]) = GroupKey(df[j])
          /\ df[i].Percent > 0
          /\ df[j].Percent # df[i].Percent
          /\ df[j].AsOfDate = df[i].AsOfDate + 2
          /\ SnapshotDates(df[i].Employee_Number) = {df[i].AsOfDate, df[j].AsOfDate}
          /\ CountIn(result, OnDay(df[i], df[i].AsOfDate + 1)) = 1

(***************************************************************************)
(* C5 as stated: conservation. For a group with a positive breakpoint the  *)
(* days that have a record of the group are exactly the days from its      *)
(* first breakpoint to its end condition (the day before its first 0%      *)
(* breakpoint, or the global maximum date), each with exactly one record,  *)
(* whatever other groups the employee has. (Stated for groups whose        *)
(* breakpoints have pairwise different dates and are all positive except   *)
(* possibly the last one, the exit.)                                       *)
(***************************************************************************)
C5_ConservationPerGroup ==
    Done =>
    \A i \in DOMAIN df :
        (/\ \E b \in Breakpoints(i) : df[b].Percent > 0
         /\ \A a, b \in Breakpoints(i) : a # b => df[a].AsOfDate # df[b].AsOfDate
         /\ \A a, b \in Breakpoints(i) : df[a].AsOfDate < df[b].AsOfDate => df[a].Percent > 0)
        =>
        LET first == SetMin({df[b].AsOfDate : b \in Breakpoints(i)})
            exits == {df[b].AsOfDate : b \in {x \in Breakpoints(i) : df[x].Percent = 0}}
            last  == IF exits # {} THEN SetMin(exits) - 1 ELSE GlobalMax
        IN  \A d \in DayRange :
                Cardinality(GroupRecords(i, d)) = (IF first <= d /\ d <= last THEN 1 ELSE 0)

(***************************************************************************)
(* C5 amended: for a group with a positive breakpoint, a day d has a       *)
(* record of the group exactly when d is at most the global maximum date   *)
(* and the employee's latest snapshot date <= d (over all groups of the    *)
(* employee) is the date of a positive breakpoint of the group; the day    *)
(* then carries one record per positive breakpoint of the group on that    *)
(* snapshot date, so more than one only for same-date duplicates.          *)
(***************************************************************************)
C5_ConservationPerSnapshot ==
    Done =>
    \A i \in DOMAIN df :
        LET bps      == Breakpoints(i)
            positive == {b \in bps : df[b].Percent > 0}
            snaps    == SnapshotDates(df[i].Employee_Number)
            recs     == {k \in DOMAIN result : GroupKey(result[k]) = GroupKey(df[i])}
            gmax     == GlobalMax
        IN  \* one row stands for its group
            ((\A b \in bps : i <= b) /\ positive # {}) =>
            \A d \in DayRange :
                LET earlier == {x \in snaps : x <= d}
                    active  == IF earlier = {} \/ d > gmax THEN {}
                               ELSE {b \in positive : df[b].AsOfDate = SetMax(earlier)}
                IN  Cardinality({k \in recs : result[k].AsOfDate = d}) = Cardinality(active)

\* a positive group interrupted by a snapshot of another group of the same employee
C5_Witness ==
    /\ Done
    /\ \E i, j \in DOMAIN df :
          /\ df[i].Employee_Number = df[j].Employee_Number
          /\ GroupKey(df[i]) # GroupKey(df[j])
          /\ df[i].Percent > 0
          /\ df[i].AsOfDate < df[j].AsOfDate
          /\ df[j].AsOfDate <= GlobalMax
          /\ Breakpoints(i) = {i}
          /\ Cardinality(GroupRecords(i, df[i].AsOfDate)) = 1
          /\ GroupRecords(i, df[j].AsOfDate) = {}

(***************************************************************************)
(* C6 as stated: a group whose final breakpoint is positive gets a record  *)
(* for every day from that breakpoint's date through the global maximum    *)
(* date, whether or not the employee has later snapshots in other groups.  *)
(***************************************************************************)
C6_OpenEndedToGlobalMax ==
    Done =>
    \A i \in DOMAIN df :
        (/\ df[i].Percent > 0
         /\ \A b \in Breakpoints(i) : df[b].AsOfDate <= df[i].AsOfDate)
        => \A d \in DayRange :
              (df[i].AsOfDate <= d /\ d <= GlobalMax)
              => CountIn(result, OnDay(df[i], d)) >= 1

(***************************************************************************)
(* C6 amended: a group whose final breakpoint is positive gets one record  *)
(* per day from that breakpoint's date through the global maximum date of  *)
(* the whole input when the employee has no later snapshot date in any     *)
(* group; when the employee has one, the records stop the day before the   *)
(* employee's next snapshot date.                                          *)
(***************************************************************************)
C6_OpenEndedUnlessLaterSnapshot ==
    Done =>
    \A i \in DOMAIN df :
        (/\ df[i].Percent > 0
         /\ \A b \in Breakpoints(i) : df[b].AsOfDate <= df[i].AsOfDate)
        => LET last == SpanEnd(df[i].Employee_Number, df[i].AsOfDate)
           IN  /\ \A d \in df[i].AsOfDate..last :
                      CountIn(result, OnDay(df[i], d)) = CountIn(df, df[i])
               /\ \A k \in DOMAIN result :
                      GroupKey(result[k]) = GroupKey(df[i]) => result[k].AsOfDate <= last

\* a single positive breakpoint whose records run to a global maximum that only
\* another employee's snapshot sets
C6_Witness ==
    /\ Done
    /\ \E i \in DOMAIN df :
          /\ df[i].Percent > 0
          /\ Breakpoints(i) = {i}
          /\ SnapshotDates(df[i].Employee_Number) = {df[i].AsOfDate}
          /\ GlobalMax = df[i].AsOfDate + 2
          /\ CountIn(result, OnDay(df[i], GlobalMax)) = 1

RecordsOfEmployee(e) == SelectSeq(result, LAMBDA r : r.Employee_Number = e)

\* the month labels that occur among an employee's output records
RecordMonths(e) ==
    {strftime_Ym(RecordsOfEmployee(e)[k].AsOfDate) : k \in DOMAIN RecordsOfEmployee(e)}

\* the sum of Percent over an employee's output records of one month
MonthTotal(e, m) ==
    LET month_data == SelectSeq(RecordsOfEmployee(e), LAMBDA r : strftime_Ym(r.AsOfDate) = m)
    IN  SeqSum([k \in DOMAIN month_data |-> month_data[k].Percent])

\* the employee's input is exactly two concurrent rows of percents p and q in two groups
TwoConcurrentRows(e, p, q) ==
    \E i, j \in RowsOfEmployee(e) :
        /\ RowsOfEmployee(e) = {i, j}
        /\ i # j
        /\ GroupKey(df[i]) # GroupKey(df[j])
        /\ df[i].AsOfDate = df[j].AsOfDate
        /\ df[i].Percent = p /\ df[j].Percent = q

\* the over-allocation findings reported for employee e and month m
OverFindings(e, m) ==
    {k \in DOMAIN errors :
        /\ errors[k].kind = "over_allocated"
        /\ errors[k].Employee_Number = e
        /\ errors[k].month = m}

\* every employee's rows of one snapshot date total at most 100%, none is negative
CleanInput ==
    /\ \A i \in DOMAIN df : df[i].Percent >= 0
    /\ \A i \in DOMAIN df :
          LET snapshot == SelectSeq(df, LAMBDA r : /\ r.Employee_Number = df[i].Employee_Number
                                                   /\ r.AsOfDate = df[i].AsOfDate)
          IN  SeqSum([k \in DOMAIN snapshot |-> snapshot[k].Percent]) <= 100

(***************************************************************************)
(* C8: monthly total invariant. For an employee with two concurrent groups *)
(* at 60% and 40% from the same date and no other row, the Percent of the  *)
(* employee's records sums to 100 in every month that has records of the   *)
(* employee, for every global maximum date.                                *)
(***************************************************************************)
C8_MonthlyTotal ==
    Done =>
    \A e \in Employees :
        TwoConcurrentRows(e, 60, 40) =>
        \A m \in RecordMonths(e) : MonthTotal(e, m) = 100

(***************************************************************************)
(* C9: for clean input (every employee's rows of a snapshot total at most  *)
(* 100%, no negative percent) the validator returns no finding on the      *)
(* output of the expansion.                                                *)
(***************************************************************************)
C9_CleanInputNoFindings ==
    (pc = "validated" /\ CleanInput) => errors = << >>

(***************************************************************************)
(* C10: over-allocation is reported, not corrected. For an employee with   *)
(* two concurrent rows of 60% and 50% on one date and no later change the  *)
(* expansion keeps both percents on every day from that date through the   *)
(* global maximum date (daily sum 110), and the validator returns exactly  *)
(* one over-allocation finding for the employee for every calendar month   *)
(* of that span and none for any other month.                              *)
(***************************************************************************)
C10_OverAllocationReported ==
    pc = "validated" =>
    \A e \in Employees :
        TwoConcurrentRows(e, 60, 50) =>
        LET start == SetMin(SnapshotDates(e))
            rows  == RowsOfEmployee(e)
        IN  /\ \A d \in DayRange :
                  \A i \in rows :
                      CountIn(result, OnDay(df[i], d)) =
                          (IF start <= d /\ d <= GlobalMax THEN 1 ELSE 0)
            /\ Len(RecordsOfEmployee(e)) = 2 * (GlobalMax - start + 1)
            /\ \A d \in start..GlobalMax :
                  Cardinality(OverFindings(e, strftime_Ym(d))) = 1
            /\ \A k \in DOMAIN errors :
                  (errors[k].kind = "over_allocated" /\ errors[k].Employee_Number = e)
                  => \E d \in start..GlobalMax : errors[k].month = strftime_Ym(d)

\* 60% and 50% from the first date, a horizon of three days that crosses the month
\* end, one finding for each of the two months
C10_Witness ==
    /\ pc = "validated"
    /\ \E e \in Employees :
          /\ TwoConcurrentRows(e, 60, 50)
          /\ SnapshotDates(e) = {FirstDate}
          /\ GlobalMax = FirstDate + 2
          /\ Cardinality(OverFindings(e, strftime_Ym(FirstDate))) = 1
          /\ Cardinality(OverFindings(e, strftime_Ym(FirstDate + 2))) = 1
          /\ strftime_Ym(FirstDate) # strftime_Ym(FirstDate + 2)

(***************************************************************************)
(* Vocabulary of the hierarchy properties                                  *)
(***************************************************************************)
\* the given query has just returned
Returned(fn) == hpc = "returned" /\ call.fn = fn

\* the employee the last query was made for
Queried == call.employee_number

\* the node n supervisor hops above e in the edge map sup, 0 when the chain
\* ends earlier
RECURSIVE Ancestor(_, _, _)
Ancestor(sup, e, n) ==
    IF n = 0 THEN e
    ELSE LET below == Ancestor(sup, e, n - 1)
         IN  IF below # 0 /\ dict_has(sup, below) THEN dict_get(sup, below) ELSE 0

\* the numbers of hops after which the chain of e reaches a node without an
\* edge: one number when the chain is acyclic, none when it runs into a cycle
HopsToRoot(sup, e) ==
    {n \in 0..Len(sup) : Ancestor(sup, e, n) # 0 /\ ~dict_has(sup, Ancestor(sup, e, n))}

\* the chain of e runs into a cycle
ReachesCycle(sup, e) == HopsToRoot(sup, e) = {}

KnownEmployee(sup, names, e) == dict_has(sup, e) \/ dict_has(names, e)

\* the name entry of a node, None without one
NameEntry(names, e) == IF dict_has(names, e) THEN dict_get(names, e) ELSE None

\* the walk of the resolver as the design describes it: from e upwards, stopping
\* at a node without supervisor or before a node already on the path
RECURSIVE ResolveUp(_, _, _)
ResolveUp(sup, e, seen) ==
    IF dict_has(sup, e) /\ dict_get(sup, e) \notin (seen \cup {e})
    THEN <<e>> \o ResolveUp(sup, dict_get(sup, e), seen \cup {e})
    ELSE <<e>>

\* OrgPath: the resolver's path, root first
OrgPath(sup, e) == reversed(ResolveUp(sup, e, {}))

(***************************************************************************)
(* C11: cycle truncation. When the root-path walk of                       *)
(* get_manager_at_level_from_top has finished, the path holds no           *)
(* identifier twice, and for two employees that are each other's           *)
(* supervisor the path has at most 2 nodes.                                *)
(***************************************************************************)
C11_CycleTruncation ==
    (Returned("get_manager_at_level_from_top") /\ path_to_top # << >>) =>
    /\ \A i, j \in DOMAIN path_to_top : i # j => path_to_top[i] # path_to_top[j]
    /\ LET sup == supervisor_cache[1]
           A   == Queried
       IN  (/\ dict_has(sup, A)
            /\ dict_get(sup, A) # A
            /\ Ancestor(sup, A, 2) = A)
           => Len(path_to_top) <= 2

(***************************************************************************)
(* C12: get_employee_level_from_top returns None for an employee in        *)
(* neither dictionary, None when the employee's supervisor chain runs into *)
(* a cycle (the employee's own, a self-loop, or a cycle further up), and   *)
(* otherwise the number of supervisor hops from the employee to the node   *)
(* without supervisor edge (0 for a known employee without an edge).       *)
(***************************************************************************)
C12_LevelFromTop ==
    Returned("get_employee_level_from_top") =>
    LET sup   == supervisor_cache[1]
        names == employee_names_cache[1]
        e     == Queried
    IN  retval = IF ~KnownEmployee(sup, names, e) THEN None
                 ELSE IF ReachesCycle(sup, e) THEN None
                 ELSE Some(CHOOSE n \in HopsToRoot(sup, e) : TRUE)

\* None has been returned for an employee whose supervisor is its own
\* supervisor: a self-loop that the employee is not part of
C12_Witness ==
    /\ Returned("get_employee_level_from_top")
    /\ LET sup == supervisor_cache[1]
       IN  /\ retval = None
           /\ dict_has(sup, Queried)
           /\ dict_get(sup, Queried) # Queried
           /\ Ancestor(sup, Queried, 1) = Ancestor(sup, Queried, 2)
           /\ level_count = 2

(***************************************************************************)
(* C13: every hierarchy walk terminates. Each iteration of a walk adds a   *)
(* node to visited that was not in it, visited holds only employees with a *)
(* supervisor edge, so a walk makes at most as many iterations as there    *)
(* are edges and then one more test of its loop condition; the key loop of *)
(* get_max_org_levels makes one walk per edge.                             *)
(***************************************************************************)
C13_WalksTerminate ==
    LET sup        == supervisor_cache[1]
        iterations == IF call.fn = "get_manager_at_level_from_top"
                      THEN (IF path_to_top = << >> THEN 0 ELSE Len(path_to_top) - 1)
                      ELSE level_count
    IN  call.fn # "none" =>
        /\ iterations = Cardinality(visited)
        /\ \A v \in visited : dict_has(sup, v)
        /\ iterations <= Len(sup)
        /\ key_idx <= Len(sup)

\* a walk has gone round a cycle through all employees and has stopped
C13_Witness ==
    /\ hpc = "returned"
    /\ call.fn \in {"get_manager_at_level_from_top", "get_employee_level_from_top"}
    /\ visited = EmployeeNumbers
    /\ current_employee = Queried
    /\ \A e \in EmployeeNumbers : dict_get(supervisor_cache[1], e) # e

(***************************************************************************)
(* C14: get_manager_at_level_from_top(e, level) returns None when          *)
(* level <= 0 or e is in neither dictionary; otherwise it returns the name *)
(* entry of the node at index level-1 of e's root-first path (OrgPath),    *)
(* and None when the path is shorter than level or that node has no name   *)
(* entry.                                                                  *)
(***************************************************************************)
C14_ManagerAtLevel ==
    Returned("get_manager_at_level_from_top") =>
    LET sup   == supervisor_cache[1]
        names == employee_names_cache[1]
        e     == Queried
        path  == OrgPath(sup, e)
    IN  retval = IF call.level <= 0 \/ ~KnownEmployee(sup, names, e) THEN None
                 ELSE IF call.level > Len(path) THEN None
                 ELSE NameEntry(names, path[call.level])

(***************************************************************************)
(* C15: for a known employee e whose depth is determined (the hop count d  *)
(* that get_employee_level_from_top returns, see C12), the root-first path *)
(* of get_manager_at_level_from_top has exactly d+1 nodes, level d+1       *)
(* yields e's own name entry and every level above d+1 yields None.        *)
(***************************************************************************)
C15_PathLength ==
    (Returned("get_manager_at_level_from_top") /\ call.level >= 1) =>
    LET sup   == supervisor_cache[1]
        names == employee_names_cache[1]
        e     == Queried
    IN  (KnownEmployee(sup, names, e) /\ ~ReachesCycle(sup, e)) =>
        LET depth == CHOOSE n \in HopsToRoot(sup, e) : TRUE
        IN  /\ Len(path_to_top) = depth + 1
            /\ reversed(path_to_top)[depth + 1] = e
            /\ call.level = depth + 1 => retval = NameEntry(names, e)
            /\ call.level > depth + 1 => retval = None

\* an employee two hops below the root is asked for level 3 and gets its own name
C15_Witness ==
    /\ Returned("get_manager_at_level_from_top")
    /\ HopsToRoot(supervisor_cache[1], Queried) = {2}
    /\ call.level = 3
    /\ Len(path_to_top) = 3
    /\ retval # None
    /\ retval = dict_get(employee_names_cache[1], Queried)

(***************************************************************************)
(* C16: get_max_org_levels returns the maximum of                          *)
(* get_employee_level_from_top over the employees that have a supervisor   *)
(* edge (0 when no such employee has a determined depth), also for         *)
(* mappings with cycles.                                                   *)
(***************************************************************************)
C16_MaxOrgLevels ==
    Returned("get_max_org_levels") =>
    LET sup    == supervisor_cache[1]
        keys   == {dict_keys(sup)[i] : i \in DOMAIN sup}
        depths == UNION {HopsToRoot(sup, e) : e \in keys}
    IN  retval = Some(SetMax(depths \cup {0}))

(***************************************************************************)
(* C17: after the cache has been built from one database, a query that     *)
(* names another database is answered from that database's supervisor and  *)
(* name data: the depth returned by get_employee_level_from_top(e, S2) is  *)
(* the depth of e in tblUKG of S2.                                         *)
(***************************************************************************)
C17_CachePerSource ==
    (/\ Returned("get_employee_level_from_top")
     /\ tblUKG[call.db_filename] # None
     /\ \E S1 \in DOMAIN tblUKG \ {call.db_filename} :
           /\ tblUKG[S1] # None
           /\ <<supervisor_cache, employee_names_cache>> = read_caches(tblUKG[S1]))
    =>
    LET own   == read_caches(tblUKG[call.db_filename])
        sup   == own[1][1]
        names == own[2][1]
        e     == Queried
    IN  retval = IF ~KnownEmployee(sup, names, e) THEN None
                 ELSE IF ReachesCycle(sup, e) THEN None
                 ELSE Some(CHOOSE n \in HopsToRoot(sup, e) : TRUE)

(***************************************************************************)
(* Vocabulary of the input-quality and independence properties             *)
(***************************************************************************)
\* the assignment group of input row i has a row whose date cannot be parsed
MalformedGroup(i) == \E b \in Breakpoints(i) : df[b].AsOfDate = NotADate

\* the output records of the assignment group with the given key, in output order
RecordsOfGroup(key) == SelectSeq(result, LAMBDA r : GroupKey(r) = key)

\* input row i is the first row of its assignment group
FirstOfGroup(i) == \A b \in Breakpoints(i) : i <= b

(***************************************************************************)
(* C18: per-group failure isolation. When one assignment group has an      *)
(* unparseable date, every other group is still expanded: a positive row   *)
(* of a well-formed group of another employee has a record on the day      *)
(* after its date when that day is no snapshot date of the employee and a  *)
(* row of a well-formed group lies on or after it.                         *)
(***************************************************************************)
C18_GroupFailureIsolation ==
    Done =>
    \A bad \in DOMAIN df :
        (df[bad].AsOfDate = NotADate /\ df[bad].Team # NaN) =>
        \A i \in DOMAIN df :
            (/\ ~MalformedGroup(i)
             /\ df[i].Team # NaN
             /\ df[i].Employee_Number # df[bad].Employee_Number
             /\ df[i].Percent > 0
             /\ df[i].AsOfDate + 1 \notin SnapshotDates(df[i].Employee_Number)
             /\ \E j \in DOMAIN df :
                   ~MalformedGroup(j) /\ df[j].AsOfDate >= df[i].AsOfDate + 1)
            => CountIn(result, OnDay(df[i], df[i].AsOfDate + 1)) >= 1

(***************************************************************************)
(* C19: a missing Team takes part in the grouping key as its own value.    *)
(* In a table whose dates are all well-formed and that has a positive row  *)
(* with Team present, the rows without Team form a group of their own that *)
(* is expanded like any other: every positive row without Team has a       *)
(* record on its own date, distinct from the records of the groups with    *)
(* Team present.                                                           *)
(***************************************************************************)
C19_MissingDimensionGroup ==
    (/\ Done
     /\ ~to_datetime_raises(df)
     /\ \E j \in DOMAIN df : df[j].Team # NaN /\ df[j].Percent > 0)
    =>
    \A i \in DOMAIN df :
        (df[i].Team = NaN /\ df[i].Percent > 0) =>
        /\ \E a \in DOMAIN unique_team_assignments :
              unique_team_assignments[a] = GroupKey(df[i])
        /\ CountIn(result, df[i]) >= 1

(***************************************************************************)
(* C20 as stated: group independence. For a fixed global maximum date the  *)
(* records emitted for a group with a positive breakpoint are those that   *)
(* the group's own breakpoints give: the output of the expansion of the    *)
(* table reduced to that group, with the same maximum date.                *)
(***************************************************************************)
C20_GroupIndependence ==
    Done =>
    \A i \in DOMAIN df :
        (FirstOfGroup(i) /\ \E b \in Breakpoints(i) : df[b].Percent > 0) =>
        LET key   == GroupKey(df[i])
            alone == SelectSeq(df_sorted, LAMBDA r : GroupKey(r) = key)
        IN  RecordsOfGroup(key) =
                sort_values(assignment_rows(alone, key, max_date), <<"AsOfDate">>)

(***************************************************************************)
(* C20 amended: for a fixed global maximum date, when the expansion        *)
(* returns an expanded table, the records emitted for a group with a       *)
(* positive breakpoint depend only on the rows of the group's employee     *)
(* (the group's breakpoints and the snapshot dates of the employee's other *)
(* groups): they are the output of the expansion of the table reduced to   *)
(* that employee, with the same maximum date. Rows of other employees do   *)
(* not change them, rows of another group of the same employee do.         *)
(***************************************************************************)
C20_EmployeeIndependence ==
    Done =>
    \A i \in DOMAIN df :
        (FirstOfGroup(i) /\ \E b \in Breakpoints(i) : df[b].Percent > 0) =>
        LET key      == GroupKey(df[i])
            employee == SelectSeq(df_sorted,
                                  LAMBDA r : r.Employee_Number = df[i].Employee_Number)
        IN  RecordsOfGroup(key) =
                sort_values(assignment_rows(employee, key, max_date), <<"AsOfDate">>)

\* a positive group cut short by the snapshot of the employee's other group,
\* and a group of another employee that sets the global maximum
C20_Witness ==
    /\ Done
    /\ \E i, j, k \in DOMAIN df :
          /\ df[i].Employee_Number = df[j].Employee_Number
          /\ GroupKey(df[i]) # GroupKey(df[j])
          /\ df[k].Employee_Number # df[i].Employee_Number
          /\ Breakpoints(i) = {i}
          /\ df[i].AsOfDate = FirstDate
          /\ df[j].AsOfDate = FirstDate + 1
          /\ df[k].AsOfDate = FirstDate + 2
          /\ Len(RecordsOfGroup(GroupKey(df[i]))) = 1
          /\ Len(RecordsOfGroup(GroupKey(df[k]))) = 1

SprintReturned == sprint # NotCalled

SprintLabel == sprint[1][1]

\* the number a label shows
RECURSIVE number_of(_)
number_of(ds) == IF ds = << >> THEN 0 ELSE 10 * number_of(SubSeq(ds, 1, Len(ds) - 1)) + ds[Len(ds)]

\* the day of 2025, the year of the sprint start, that a label's "DD-MMM" names
LabelledEnd(label) ==
    CHOOSE e \in 0..364 : strftime_db(e) = label.end_date_formatted

(***************************************************************************)
(* C22: get_sprint_info gives no label to a date before 2025-01-01; a date *)
(* d >= 0 days after it gets a label with the 1-based index                *)
(* min(floor(d/14)+1, 26), in two digits, and with the day and month of    *)
(* the end date 2025-01-01 + (index-1)*14 + 13 days.                       *)
(***************************************************************************)
C22_SprintInfo ==
    SprintReturned =>
    LET d == asof_date - sprint_start
    IN  IF d < 0 THEN sprint[1] = None
        ELSE LET index == IF (d \div 14) + 1 <= 26 THEN (d \div 14) + 1 ELSE 26
             IN  /\ sprint[1] # None
                 /\ number_of(SprintLabel.number) = index
                 /\ Len(SprintLabel.number) = 2
                 /\ SprintLabel.end_date_formatted =
                        strftime_db(sprint_start + (index - 1) * 14 + 13)

\* the last day of 2025 is labelled with sprint 26, which ends on 30 December
C22_Witness ==
    /\ SprintReturned
    /\ asof_date = 364
    /\ sprint[1] # None
    /\ SprintLabel.number = <<2, 6>>
    /\ SprintLabel.end_date_formatted = <<(<<3, 0>>), "Dec">>

(***************************************************************************)
(* C29: every date on or after 2025-01-01 lies inside the sprint its label *)
(* names: sprint start (2025-01-01 + (index-1)*14 days) <= date <= the     *)
(* labelled end date, also for dates 364 or more days after 2025-01-01,    *)
(* where the index is capped at 26.                                        *)
(***************************************************************************)
C29_DateInsideSprint ==
    (SprintReturned /\ asof_date >= sprint_start) =>
    /\ sprint[1] # None
    /\ LET index == number_of(SprintLabel.number)
       IN  /\ sprint_start + (index - 1) * 14 <= asof_date
           /\ asof_date <= LabelledEnd(SprintLabel)

(***************************************************************************)
(* C23: add_calculated_columns applied to the output of the expansion of   *)
(* an input with the assignment columns alone (no Last_Name, no            *)
(* First_Name) returns a table that has the columns Year, YearMonth,       *)
(* MonthlyUnit and DayUnit on every row, with MonthlyUnit equal to the     *)
(* row's Percent.                                                          *)
(***************************************************************************)
C23_CalculatedColumns ==
    (/\ pc = "calculated"
     /\ HasPositiveRow
     /\ columns(df) \cap {"Last_Name", "First_Name"} = {}) =>
    \A k \in DOMAIN result_df :
        /\ {"Year", "YearMonth", "MonthlyUnit", "DayUnit"} \subseteq DOMAIN result_df[k]
        /\ result_df[k].MonthlyUnit = result_df[k].Percent

(***************************************************************************)
(* C24: same-date breakpoints are not deduplicated. When two input rows of *)
(* one group share an AsOfDate and have positive percent, both are kept    *)
(* and each is expanded over the same interval (from that date to the day  *)
(* before the employee's next snapshot date, or the global maximum): on    *)
(* every day of the interval the output holds one record for each of them, *)
(* so at least two records of the group.                                   *)
(***************************************************************************)
C24_SameDateBreakpointsKept ==
    Done =>
    \A i, j \in DOMAIN df :
        (/\ i # j
         /\ GroupKey(df[i]) = GroupKey(df[j])
         /\ df[i].AsOfDate = df[j].AsOfDate
         /\ df[i].Percent > 0 /\ df[j].Percent > 0)
        =>
        LET D    == df[i].AsOfDate
            same == {b \in Breakpoints(i) : df[b].AsOfDate = D /\ df[b].Percent > 0}
        IN  \A d \in D..SpanEnd(df[i].Employee_Number, D) :
                /\ CountIn(result, OnDay(df[i], d)) = CountIn(df, df[i])
                /\ CountIn(result, OnDay(df[j], d)) = CountIn(df, df[j])
                /\ Cardinality(GroupRecords(i, d)) = Cardinality(same)
                /\ Cardinality(GroupRecords(i, d)) >= 2

\* 50% and 60% in one group on the first date, each expanded over two days
C24_Witness ==
    /\ Done
    /\ \E i, j \in DOMAIN df :
          /\ GroupKey(df[i]) = GroupKey(df[j])
          /\ df[i].AsOfDate = FirstDate /\ df[j].AsOfDate = FirstDate
          /\ df[i].Percent = 50 /\ df[j].Percent = 60
          /\ SpanEnd(df[i].Employee_Number, FirstDate) = FirstDate + 1
          /\ CountIn(result, OnDay(df[i], FirstDate + 1)) = 1
          /\ CountIn(result, OnDay(df[j], FirstDate + 1)) = 1
          /\ Cardinality(GroupRecords(i, FirstDate + 1)) = 2

(***************************************************************************)
(* C25: get_max_org_levels returns the fixed fallback value 5 when the     *)
(* supervisor edge set is empty, and when the cache could not be built     *)
(* from the source (the database has no table tblUKG).                     *)
(***************************************************************************)
C25_MaxOrgLevelsFallback ==
    Returned("get_max_org_levels") =>
    /\ supervisor_cache[1] = << >> => retval = Some(5)
    /\ (/\ tblUKG[call.db_filename] = None
        /\ <<supervisor_cache, employee_names_cache>> = read_caches(None))
       => retval = Some(5)

(***************************************************************************)
(* C30: the hierarchy cache is written at most once per process. Once the  *)
(* first call of _build_supervisor_cache has stored the two maps (read     *)
(* from the source, or two empty maps after a failure), no later step of   *)
(* any query with any source name changes them; after a failed first build *)
(* every manager and depth query returns None and get_max_org_levels       *)
(* returns 0, also when the query names a valid source.                    *)
(***************************************************************************)
C30_CacheWrittenOnce ==
    /\ [][supervisor_cache # None =>
              /\ supervisor_cache' = supervisor_cache
              /\ employee_names_cache' = employee_names_cache]_vars
    /\ []((hpc = "returned" /\ <<supervisor_cache, employee_names_cache>> = read_caches(None))
          => retval = IF call.fn = "get_max_org_levels" THEN Some(0) ELSE None)

\* after a failed first build get_max_org_levels is asked about a database
\* whose table has supervisor edges, and returns 0
C30_Witness ==
    /\ Returned("get_max_org_levels")
    /\ <<supervisor_cache, employee_names_cache>> = read_caches(None)
    /\ tblUKG[call.db_filename] # None
    /\ supervisor_dict(tblUKG[call.db_filename][1]) # << >>
    /\ retval = Some(0)

(***************************************************************************)
(* C26: run_allocation_validation_tests never rejects its input. Called    *)
(* with a table that lacks one of the required columns (Employee_Number,   *)
(* Team, Percent, AsOfDate) it returns a list that holds a "missing        *)
(* required columns" finding naming that column, and does not raise.       *)
(***************************************************************************)
C26_MissingColumnsReported ==
    \A col \in {"Employee_Number", "Team", "Percent", "AsOfDate"} :
        (pc \in {"validated", "raised"} /\ col \notin columns(result)) =>
        /\ pc = "validated"
        /\ \E k \in DOMAIN errors :
              /\ errors[k].kind = "missing_columns"
              /\ errors[k].missing_columns = <<col>>

(***************************************************************************)
(* Vocabulary of the snapshot properties                                   *)
(***************************************************************************)
\* the output records of employee e dated d
EmployeeRecords(e, d) ==
    {k \in DOMAIN result : result[k].Employee_Number = e /\ result[k].AsOfDate = d}

\* the positive input rows of e's latest snapshot at or before day d
ActiveRows(e, d) ==
    LET latest == SetMax({x \in SnapshotDates(e) : x <= d})
    IN  {i \in RowsOfEmployee(e) : df[i].AsOfDate = latest /\ df[i].Percent > 0}

\* on every day from e's first snapshot to the global maximum the records of
\* e are one copy of each active row
SnapshotSemantics(e) ==
    \A d \in SetMin(SnapshotDates(e))..GlobalMax :
        /\ Cardinality(EmployeeRecords(e, d)) = Cardinality(ActiveRows(e, d))
        /\ \A i \in ActiveRows(e, d) :
              CountIn(result, OnDay(df[i], d)) = CountIn(df, df[i])

\* all dimension values of the rows of e are present
DimensionsPresent(e) ==
    \A i \in RowsOfEmployee(e) :
        \A c \in DOMAIN grouping_cols : df[i][grouping_cols[c]] # NaN

(***************************************************************************)
(* C27 as stated: snapshot semantics of the day-level expansion. For every *)
(* employee e whose rows all have their dimension values, and every day d  *)
(* from e's earliest AsOfDate through the global maximum date, the output  *)
(* records for (e, d) are exactly one copy of each input row of e with     *)
(* Percent > 0 whose AsOfDate is e's latest AsOfDate <= d, for every input *)
(* table.                                                                  *)
(***************************************************************************)
C27_SnapshotSemantics ==
    Done =>
    \A e \in Employees :
        (RowsOfEmployee(e) # {} /\ DimensionsPresent(e)) => SnapshotSemantics(e)

(***************************************************************************)
(* C27 amended: the snapshot semantics hold when at least one row of the   *)
(* input table has a positive Percent. (A table without such a row comes   *)
(* back unexpanded, 0% rows included, see C28.) A group that is absent     *)
(* from a newer snapshot of its employee stops being emitted at that       *)
(* snapshot's date even without a 0% row.                                  *)
(***************************************************************************)
C27_SnapshotSemanticsWhenExpanded ==
    (Done /\ HasPositiveRow) =>
    \A e \in Employees :
        (RowsOfEmployee(e) # {} /\ DimensionsPresent(e)) => SnapshotSemantics(e)

\* a positive group without a row in the employee's next snapshot: emitted on
\* the first day, gone from the day of the next snapshot, which has no 0% row
C27_Witness ==
    /\ Done
    /\ \E i, j \in DOMAIN df :
          /\ df[i].Employee_Number = df[j].Employee_Number
          /\ GroupKey(df[i]) # GroupKey(df[j])
          /\ df[i].Percent > 0 /\ df[j].Percent > 0
          /\ df[i].AsOfDate = FirstDate /\ df[j].AsOfDate = FirstDate + 1
          /\ RowsOfEmployee(df[i].Employee_Number) = {i, j}
          /\ GlobalMax = FirstDate + 2
          /\ Cardinality(GroupRecords(i, FirstDate)) = 1
          /\ GroupRecords(i, FirstDate + 1) = {}
          /\ GroupRecords(i, FirstDate + 2) = {}
          /\ Cardinality(GroupRecords(j, FirstDate + 2)) = 1

(***************************************************************************)
(* C28: when no input row has a positive Percent, expand_with_missing_dates *)
(* does not return an empty table and does not raise: it takes its         *)
(* exception path and returns the original input rows, unchanged and       *)
(* unexpanded.                                                             *)
(***************************************************************************)
C28_NoPositiveRowReturnsInput ==
    (Done /\ \A i \in DOMAIN df : df[i].Percent <= 0) =>
    /\ expanded_rows = << >>
    /\ result # << >>
    /\ result = df

\* a 0% row and a negative row two days apart come back as they went in, with
\* no record for the day in between
C28_Witness ==
    /\ Done
    /\ \E i, j \in DOMAIN df :
          /\ df[i].Percent = 0 /\ df[j].Percent < 0
          /\ df[i].AsOfDate + 2 = df[j].AsOfDate
    /\ \A i \in DOMAIN df : df[i].Percent <= 0
    /\ result = df
    /\ Len(result) = 2

====
